---- MODULE Spec2Model ----
(***************************************************************************)
(* A model of rust/lance/src/index/vector/ivf/builder.rs: the bounded      *)
(* parallel transform stage, the two shuffle strategies (shuffle_dataset   *)
(* and shuffle_dataset_v2) and the orchestrator build_partitions.          *)
(*                                                                         *)
(* The collaborators whose code lives in other crates of the repository    *)
(* (IvfShuffler, partition_transform, new_ivf_with_pq, group_by_stream,    *)
(* write_index_partitions) are modelled from their specification.          *)
(***************************************************************************)
EXTENDS Integers, Sequences, FiniteSets, Bags, TLC

(* ------------------------------ bounds --------------------------------- *)

\* Size of the input stream: its rows plus its upstream error items.
MaxInput == 3
\* ivf.num_partitions(): the number of logical partitions.
NumPartitions == 3
\* num_cpus::get(): the processing units of the machine.
NumCpus == 2
\* Longest value of the LANCE_MEMORY_LIMIT variable that is enumerated.
MaxEnvLen == 2
\* Largest small chunk size the shuffler is driven with.
MaxChunk == 2
\* pq.num_sub_vectors(): the sub-vectors of the product quantizer.
NumSubVectors == 2

(* ------------------------- program constants --------------------------- *)

\* write_partitioned_shuffles(10000, 2)
ChunkSize == 10000
FanOut == 2

\* The vector column asked for, and lance_core::ROW_ID.
Column == "vector"
ROW_ID == "_rowid"

(* ------------------------------ results -------------------------------- *)

NoResult == [tag |-> "none", kind |-> ""]
OkResult == [tag |-> "ok", kind |-> ""]
Err(k) == [tag |-> "err", kind |-> k]

(* ------------------------------- input --------------------------------- *)

\* What happens to the task of an input item: the batch is transformed, the
\* upstream source yielded an error item, partition_transform returns an
\* error, or the spawned task panics.
Fates == {"ok", "source", "transform", "panic"}

\* The shapes of an input stream of total size at most n: the length and
\* the fate of every item. An upstream error item carries no batch.
RECURSIVE Shapes(_)
Shapes(n) ==
    IF n = 0 THEN {<<>>}
    ELSE {<<>>} \cup
         UNION { { <<it>> \o s : s \in Shapes(n - it.len) } :
                 it \in { x \in [len : 1..n, fate : Fates] :
                          x.fate = "source" => x.len = 1 } }

RECURSIVE Offset(_, _)
Offset(shape, i) ==
    IF i = 1 THEN 0 ELSE Offset(shape, i - 1) + shape[i - 1].len

\* The input stream of a shape: row ids are unique and number the rows in
\* stream order.
MkData(shape) ==
    [i \in 1..Len(shape) |->
        [rows |-> IF shape[i].fate = "source" THEN <<>>
                  ELSE [k \in 1..shape[i].len |-> Offset(shape, i) + k],
         fate |-> shape[i].fate]]

RowIdsOf(d) == UNION { {d[i].rows[k] : k \in 1..Len(d[i].rows)} : i \in 1..Len(d) }

AllOk(d) == \A i \in 1..Len(d) : d[i].fate = "ok"

\* The partition models a run is tried with: every assignment of the rows
\* of the stream to partition ids. A stream with a failing item never has
\* its partition ids read by a later phase, so one model stands for all.
IvfsFor(d) ==
    { f \in [1..MaxInput -> 0..(NumPartitions - 1)] :
        /\ \A r \in (1..MaxInput) \ RowIdsOf(d) : f[r] = 0
        /\ ~AllOk(d) => \A r \in 1..MaxInput : f[r] = 0 }

\* Values of the environment variable: unset, set to bytes that are not
\* unicode, or set to a string.
EnvChars == {"0", "1", "+", "x"}

RECURSIVE Strings(_)
Strings(n) ==
    IF n = 0 THEN {<<>>}
    ELSE Strings(n - 1) \cup
         { Append(s, c) : s \in { t \in Strings(n - 1) : Len(t) = n - 1 }, c \in EnvChars }

EnvValues ==
    { [state |-> "unset", value |-> <<>>], [state |-> "not_unicode", value |-> <<>>] }
    \cup { [state |-> "set", value |-> s] : s \in Strings(MaxEnvLen) }

\* One value of each kind: unset, a number, malformed. The read of the
\* variable does not look at the stream, so the long streams are tried
\* with these and every other value with the streams of at most one item.
EnvCore ==
    { [state |-> "unset", value |-> <<>>],
      [state |-> "set", value |-> <<"1">>],
      [state |-> "set", value |-> <<"x">>] }

(* ------------------------------ helpers -------------------------------- *)

RECURSIVE Flatten(_)
Flatten(ss) == IF ss = <<>> THEN <<>> ELSE Head(ss) \o Flatten(Tail(ss))

RECURSIVE SeqToBag(_)
SeqToBag(s) ==
    IF s = <<>> THEN EmptyBag ELSE SetToBag({Head(s)}) (+) SeqToBag(Tail(s))

(* ------------------------------- state --------------------------------- *)

VARIABLES
    entry,            \* the function that was called
    schema,           \* data.schema(): the column names of the input stream
    data,             \* the input stream
    vectors,          \* the vector column: row id -> the vector of the row
    metric_type,      \* the metric build_partitions is called with
    part_range,       \* the partition range build_partitions is called with
    precomputed,      \* precomputed_partitons: Option of row id -> partition id
    ivf,              \* the partition model: row id -> partition id
    env,              \* LANCE_MEMORY_LIMIT
    chunk_size,       \* first argument of write_partitioned_shuffles
    fan_out,          \* second argument of write_partitioned_shuffles
    pc,               \* where the called function stands
    stream,           \* the transform stream: "none", "alive" or "dropped"
    tasks,            \* the spawned tasks, in spawn order
    emitted,          \* the items the transform stream has yielded
    spill,            \* IvfShuffler: the staged batches
    partition_files,  \* IvfShuffler: the bucket files
    streams,          \* the output partition streams of shuffle_dataset_v2
    engine_input,     \* the batches the execution context has read
    groups,           \* the grouped stream of shuffle_dataset
    memory_pool,      \* the allocator of the execution context
    logged,           \* messages logged with log::error!
    out_schema,       \* the schema declared for the transformed stream
    model_built,      \* new_ivf_with_pq has returned a model
    phases,           \* the phases started so far
    written,          \* what the writer has received
    result,           \* what the called function returned
    origin            \* the kind of the failure as it first occurred

args == <<entry, schema, data, vectors, metric_type, part_range, precomputed,
          env, chunk_size, fan_out>>
inputs == <<args, ivf>>
stage_vars == <<stream, tasks, emitted>>
shuffler_vars == <<spill, partition_files, streams>>
engine_vars == <<engine_input, groups, memory_pool, logged>>
vars == <<inputs, pc, stage_vars, shuffler_vars, engine_vars, out_schema,
          model_built, phases, written, result, origin>>

(* ------------------------- the partition model ------------------------ *)

\* ivf.centroids: centroid p lies at coordinate 2p of a line, so that the
\* odd coordinates are equally near to two centroids.
Centroids == [p \in 1..NumPartitions |-> 2 * (p - 1)]
MaxCoord == 2 * (NumPartitions - 1)

MetricTypes == {"l2", "dot"}

\* The distance of a vector to a centroid under a metric.
Distance(m, v, c) == IF m = "l2" THEN (v - c) * (v - c) ELSE 1 - v * c

\* The index of the nearest of the first n centroids: a scan that moves to
\* a later centroid only when it is strictly nearer.
RECURSIVE ArgMin(_, _, _, _)
ArgMin(cs, m, v, n) ==
    IF n = 1 THEN 1
    ELSE LET best == ArgMin(cs, m, v, n - 1)
         IN IF Distance(m, v, cs[n]) < Distance(m, v, cs[best]) THEN n ELSE best

None == [some |-> FALSE, val |-> 0]
Some(v) == [some |-> TRUE, val |-> v]

\* The mark of a row that the model leaves out of the transformed batch.
Filtered == -1

\* The partition id the Assigner gives to a row: the precomputed id of its
\* row id if there is one, the index of the nearest centroid otherwise.
AssignPartition(a, r) ==
    IF a.precomputed.some /\ r \in DOMAIN a.precomputed.val
    THEN a.precomputed.val[r]
    ELSE ArgMin(a.centroids, a.metric_type, vectors[r], Len(a.centroids)) - 1

\* new_ivf_with_pq(centroids, dim, metric_type, column, pq, range,
\* precomputed): the model over the rows of the stream. A row whose
\* partition id is outside the range takes no part.
NewIvfWithPq(a) ==
    [r \in 1..MaxInput |->
        LET pid == AssignPartition(a, r)
        IN IF a.range.some => (a.range.val.start <= pid /\ pid < a.range.val.end)
           THEN pid ELSE Filtered]

\* Variants of IvfModelArgs: the metric is not handed on, the precomputed
\* partitions are not handed on, the range stands for a count of ids.
IvfModelArgsL2 ==
    [centroids |-> Centroids, metric_type |-> "l2",
     range |-> Some(part_range), precomputed |-> precomputed]

IvfModelArgsNoPrecomputed ==
    [centroids |-> Centroids, metric_type |-> metric_type,
     range |-> Some(part_range), precomputed |-> None]

IvfModelArgsNoRange ==
    [centroids |-> Centroids, metric_type |-> metric_type,
     range |-> None, precomputed |-> precomputed]

\* The arguments build_partitions hands to new_ivf_with_pq.
IvfModelArgs ==
    [centroids |-> Centroids, metric_type |-> metric_type,
     range |-> Some(part_range), precomputed |-> precomputed]

\* The code the product quantizer gives to the vector of a row: one byte
\* for every sub-vector.
PqCode(r) == [j \in 1..NumSubVectors |-> (vectors[r] + j) % 256]

(* ----------------------- the transform stage --------------------------- *)

\* ivf.partition_transform(&batch, column): every row of the batch that
\* the model keeps gets its partition id and its code; the batch is
\* transformed as a whole.
PartitionTransform(rows) ==
    [k \in 1..Len(SelectSeq(rows, LAMBDA r : ivf[r] # Filtered)) |->
        LET r == SelectSeq(rows, LAMBDA x : ivf[x] # Filtered)[k]
        IN [row_id |-> r, part_id |-> ivf[r], code |-> PqCode(r)]]

\* What the JoinHandle of the task spawned for an input item resolves to:
\* `let batch = b?; ivf.partition_transform(&batch, col).await`.
TaskResult(item) ==
    CASE item.fate = "ok" ->
           [join |-> "Ok", res |-> "Ok", batch |-> PartitionTransform(item.rows), kind |-> ""]
      [] item.fate = "source" ->
           [join |-> "Ok", res |-> "Err", batch |-> <<>>, kind |-> "Source"]
      [] item.fate = "transform" ->
           [join |-> "Ok", res |-> "Err", batch |-> <<>>, kind |-> "Transform"]
      [] item.fate = "panic" ->
           [join |-> "Err", res |-> "", batch |-> <<>>, kind |-> "Panic"]

\* A variant of StreamItemV2 that hands a failed task on as an empty batch.
StreamItemV2Swallow(res) ==
    IF res.join = "Ok" /\ res.res = "Ok"
    THEN [ok |-> TRUE, batch |-> res.batch, kind |-> ""]
    ELSE [ok |-> TRUE, batch |-> <<>>, kind |-> ""]

\* A variant of StreamItemV2 that hands the error of a task on as it is.
StreamItemV2KeepKind(res) ==
    IF res.join = "Ok" /\ res.res = "Ok"
    THEN [ok |-> TRUE, batch |-> res.batch, kind |-> ""]
    ELSE [ok |-> FALSE, batch |-> <<>>, kind |-> res.kind]

\* The `.map(|res| match res {...})` of shuffle_dataset_v2: both failure
\* arms build Error::IO from the text of the error.
StreamItemV2(res) ==
    IF res.join = "Ok" /\ res.res = "Ok"
    THEN [ok |-> TRUE, batch |-> res.batch, kind |-> ""]
    ELSE IF res.join = "Ok"
         THEN [ok |-> FALSE, batch |-> <<>>, kind |-> "IO"]
         ELSE [ok |-> FALSE, batch |-> <<>>, kind |-> "IO"]

\* The `.map(|res| match res {...})` of shuffle_dataset.
StreamItemV1(res) ==
    IF res.join = "Ok" /\ res.res = "Ok"
    THEN [ok |-> TRUE, batch |-> res.batch, kind |-> ""]
    ELSE IF res.join = "Ok"
         THEN [ok |-> FALSE, batch |-> <<>>, kind |-> "DataFusionExternal"]
         ELSE [ok |-> FALSE, batch |-> <<>>, kind |-> "DataFusionExecution"]

\* The schema declared for the transformed stream: the row id, the
\* partition id and the code, a fixed-size list of num_sub_vectors bytes.
NoSchema == <<>>

\* A variant of TransformedSchema that takes the item type of the code
\* column, one byte, for its width.
TransformedSchemaByteWide(num_sub_vectors) ==
    [fields |-> <<ROW_ID, "__ivf_part_id", "__pq_code">>, code_width |-> 1]

TransformedSchema(num_sub_vectors) ==
    [fields |-> <<ROW_ID, "__ivf_part_id", "__pq_code">>, code_width |-> num_sub_vectors]

\* The tasks spawned and not yet yielded to the consumer.
InFlight == Cardinality({ i \in 1..Len(tasks) : tasks[i] # "yielded" })

\* A variant of CanPull without the limit.
CanPullUnbounded == Len(tasks) < Len(data)

\* A variant of CanPull for a buffer of no slot.
CanPullZeroBuffer == Len(tasks) < Len(data) /\ InFlight < 0

\* buffer_unordered(num_cpus::get()) polls the zipped input stream only
\* while fewer than that many futures are in its queue.
CanPull == Len(tasks) < Len(data) /\ InFlight < NumCpus

(* --------------------- the memory-bounded context ---------------------- *)

Digits == {"0", "1", "2", "3", "4", "5", "6", "7", "8", "9"}

DigitVal(c) ==
    CASE c = "0" -> 0 [] c = "1" -> 1 [] c = "2" -> 2 [] c = "3" -> 3
      [] c = "4" -> 4 [] c = "5" -> 5 [] c = "6" -> 6 [] c = "7" -> 7
      [] c = "8" -> 8 [] c = "9" -> 9

RECURSIVE DigitsValue(_)
DigitsValue(s) ==
    IF s = <<>> THEN 0
    ELSE DigitsValue(SubSeq(s, 1, Len(s) - 1)) * 10 + DigitVal(s[Len(s)])

\* str::parse::<usize>: an optional leading "+", then one or more decimal
\* digits. (No enumerated value is long enough to overflow usize.)
ParseUsize(s) ==
    LET body == IF s # <<>> /\ s[1] = "+" THEN Tail(s) ELSE s
    IN IF body = <<>> \/ \E i \in 1..Len(body) : body[i] \notin Digits
       THEN [ok |-> FALSE, val |-> 0]
       ELSE [ok |-> TRUE, val |-> DigitsValue(body)]

\* A variant of MemoryLimit that caps the pool at 0 for a malformed value.
MemoryLimitZero(e) ==
    IF e.state = "set"
    THEN IF ParseUsize(e.value).ok THEN Some(ParseUsize(e.value).val) ELSE Some(0)
    ELSE None

\* `let memory_limit = if let Ok(..) = std::env::var(..) {match parse ..}`
MemoryLimit(e) ==
    IF e.state = "set"
    THEN IF ParseUsize(e.value).ok THEN Some(ParseUsize(e.value).val) ELSE None
    ELSE None

\* Whether the read of the variable logs "Failed to parse LANCE_MEMORY_LIMIT".
MemoryLimitLogs(e) == e.state = "set" /\ ~ParseUsize(e.value).ok

\* `let memory_pool = if let Some(memory_limit) = memory_limit {...}`
MemoryPool(limit) ==
    IF limit.some THEN [kind |-> "greedy", limit |-> limit.val]
    ELSE [kind |-> "unbounded", limit |-> 0]

NoPool == [kind |-> "none", limit |-> 0]

(* ------------------------ sort and group by ---------------------------- *)

RECURSIVE InsertSorted(_, _)
InsertSorted(sorted, r) ==
    IF sorted = <<>> THEN <<r>>
    ELSE IF Head(sorted).part_id <= r.part_id
         THEN <<Head(sorted)>> \o InsertSorted(Tail(sorted), r)
         ELSE <<r>> \o sorted

\* A variant of SortByPartId that leaves the rows as they arrived.
SortByPartIdSkipped(rows) == rows

\* `.sort(vec![col(PART_ID_COLUMN).sort(true, true)])`: ascending and stable.
RECURSIVE SortByPartId(_)
SortByPartId(rows) ==
    IF rows = <<>> THEN <<>>
    ELSE InsertSorted(SortByPartId(SubSeq(rows, 1, Len(rows) - 1)), rows[Len(rows)])

\* `.group_by_stream(&[PART_ID_COLUMN])`: every run of adjacent rows with
\* the same partition id becomes one group.
RECURSIVE GroupByStream(_)
GroupByStream(rows) ==
    IF rows = <<>> THEN <<>>
    ELSE LET r == Head(rows)
             rest == GroupByStream(Tail(rows))
         IN IF rest # <<>> /\ Head(rest).part_id = r.part_id
            THEN <<[part_id |-> r.part_id, rows |-> <<r>> \o Head(rest).rows]>> \o Tail(rest)
            ELSE <<[part_id |-> r.part_id, rows |-> <<r>>]>> \o rest

(* ---------------------------- IvfShuffler ------------------------------ *)

\* write_unsorted_stream appends every batch, unsorted, to the spill area.
StageAppend(sp, batch) == Append(sp, batch)

\* The staged rows are re-read in chunks of c rows.
RECURSIVE SplitChunks(_, _)
SplitChunks(rows, c) ==
    IF rows = <<>> THEN <<>>
    ELSE IF Len(rows) <= c THEN <<rows>>
         ELSE <<SubSeq(rows, 1, c)>> \o SplitChunks(SubSeq(rows, c + 1, Len(rows)), c)

\* The number of bucket files, and the bucket of a partition id: every
\* bucket holds a contiguous range of f partition ids.
NumBuckets(f) == (NumPartitions + f - 1) \div f
BucketOf(pid, f) == pid \div f

\* One chunk is redistributed: each row is appended to its bucket file.
Redistribute(files, chunk, f) ==
    [b \in 1..Len(files) |->
        files[b] \o SelectSeq(chunk, LAMBDA r : BucketOf(r.part_id, f) = b - 1)]

RECURSIVE BucketChunks(_, _, _)
BucketChunks(files, chunks, f) ==
    IF chunks = <<>> THEN files
    ELSE BucketChunks(Redistribute(files, Head(chunks), f), Tail(chunks), f)

\* write_partitioned_shuffles(chunk_size, fan_out_factor)
WritePartitionedShuffles(sp, c, f) ==
    BucketChunks([b \in 1..NumBuckets(f) |-> <<>>], SplitChunks(Flatten(sp), c), f)

\* The batches of one partition: from every bucket file that holds rows
\* of the partition, those rows.
RECURSIVE PartitionBatches(_, _)
PartitionBatches(files, pid) ==
    IF files = <<>> THEN <<>>
    ELSE LET mine == SelectSeq(Head(files), LAMBDA r : r.part_id = pid)
         IN (IF mine = <<>> THEN <<>> ELSE <<mine>>) \o PartitionBatches(Tail(files), pid)

\* load_partitioned_shuffles(files): one stream per partition id, the
\* stream of partition id p at index p of the returned vector.
LoadPartitionedShuffles(files) ==
    [p \in 1..NumPartitions |-> PartitionBatches(files, p - 1)]

(* --------------------------- initial states ---------------------------- *)

\* The whole index, no vectors, no model yet.
FullRange == [start |-> 0, end |-> NumPartitions]
NoVectors == [r \in 1..MaxInput |-> 0]
NoModel == <<>>

\* The vector columns a stream is tried with, the coordinates taken from a
\* set. As for the models, one column stands for all when an item fails.
VectorsFor(d, coords) ==
    { f \in [1..MaxInput -> coords \cup {0}] :
        /\ \A r \in (1..MaxInput) \ RowIdsOf(d) : f[r] = 0
        /\ ~AllOk(d) => \A r \in 1..MaxInput : f[r] = 0 }

\* The half-open ranges [start, end) of partition ids.
Ranges ==
    { x \in [start : 0..NumPartitions, end : 0..NumPartitions] : x.start <= x.end }

\* The precomputed partitions: none, or a map of at most one row id.
Overrides(d) ==
    {None} \cup
    { Some(m) : m \in UNION { [D -> 0..(NumPartitions - 1)] :
                              D \in { E \in SUBSET RowIdsOf(d) : Cardinality(E) <= 1 } } }

Idle ==
    /\ stream = "none"
    /\ tasks = <<>>
    /\ emitted = <<>>
    /\ spill = <<>>
    /\ partition_files = <<>>
    /\ streams = <<>>
    /\ engine_input = <<>>
    /\ groups = <<>>
    /\ memory_pool = NoPool
    /\ logged = <<>>
    /\ out_schema = NoSchema
    /\ model_built = FALSE
    /\ phases = <<>>
    /\ written = <<>>
    /\ result = NoResult
    /\ origin = ""

\* A call of build_partitions or of shuffle_dataset.
Init ==
    /\ entry \in {"build_partitions", "shuffle_dataset"}
    /\ \E sh \in Shapes(MaxInput) : data = MkData(sh)
    /\ IF entry = "build_partitions"
       THEN /\ vectors \in VectorsFor(data, { Centroids[p] : p \in 1..NumPartitions })
            /\ ivf = NoModel
       ELSE /\ vectors = NoVectors
            /\ ivf \in IvfsFor(data)
    /\ metric_type = "l2"
    /\ part_range = FullRange
    /\ precomputed = None
    /\ schema \in (IF entry = "build_partitions"
                   THEN SUBSET {Column, ROW_ID} ELSE {{Column, ROW_ID}})
    /\ env \in (IF entry = "shuffle_dataset"
                THEN EnvValues ELSE {[state |-> "unset", value |-> <<>>]})
    /\ env \notin EnvCore => Len(data) <= 1
    /\ chunk_size = ChunkSize
    /\ fan_out = FanOut
    /\ pc = (IF entry = "build_partitions" THEN "validate" ELSE "shuffle_v1")
    /\ Idle

\* The three phases of an IvfShuffler driven over a transformed stream
\* with any chunk size and any fan-out factor.
ShufflerInit ==
    /\ entry = "ivf_shuffler"
    /\ \E sh \in { s \in Shapes(MaxInput) : \A i \in 1..Len(s) : s[i].fate = "ok" } :
          data = MkData(sh)
    /\ ivf \in IvfsFor(data)
    /\ vectors = NoVectors
    /\ metric_type = "l2"
    /\ part_range = FullRange
    /\ precomputed = None
    /\ schema = {Column, ROW_ID}
    /\ env = [state |-> "unset", value |-> <<>>]
    /\ chunk_size \in (1..MaxChunk) \cup {ChunkSize}
    /\ fan_out \in {1, FanOut, 8}
    /\ pc = "shuffle_v2"
    /\ Idle

\* A call of build_partitions on a stream of one batch, with any vectors
\* and one of: another metric, a range of the index, precomputed partitions.
BuildInit ==
    /\ entry = "build_partitions"
    /\ \E sh \in { s \in Shapes(MaxInput) :
                      Len(s) <= 1 /\ \A i \in 1..Len(s) : s[i].fate = "ok" } :
          data = MkData(sh)
    /\ vectors \in VectorsFor(data, 0..MaxCoord)
    /\ ivf = NoModel
    /\ metric_type \in MetricTypes
    /\ part_range \in Ranges
    /\ precomputed \in Overrides(data)
    /\ metric_type # "l2" => (part_range = FullRange /\ precomputed = None)
    /\ part_range # FullRange => precomputed = None
    /\ schema = {Column, ROW_ID}
    /\ env = [state |-> "unset", value |-> <<>>]
    /\ chunk_size = ChunkSize
    /\ fan_out = FanOut
    /\ pc = "validate"
    /\ Idle

(* --------------------------- build_partitions -------------------------- *)

\* A variant of ValidateSchema that forgets the row-id column.
ValidateSchemaColumnOnly(s) ==
    IF Column \notin s THEN Err("Schema") ELSE OkResult

\* The two `schema.column_with_name(..).is_none()` checks.
ValidateSchema(s) ==
    IF Column \notin s THEN Err("Schema")
    ELSE IF ROW_ID \notin s THEN Err("Schema")
    ELSE OkResult

BuildPartitionsValidate ==
    /\ pc = "validate"
    /\ IF ValidateSchema(schema).tag = "err"
       THEN /\ result' = ValidateSchema(schema)
            /\ origin' = "Schema"
            /\ pc' = "done"
       ELSE /\ pc' = "new_ivf"
            /\ UNCHANGED <<result, origin>>
    /\ UNCHANGED <<inputs, stage_vars, shuffler_vars, engine_vars,
                   out_schema, model_built, phases, written>>

\* new_ivf_with_pq(...)?
BuildPartitionsNewIvf ==
    /\ pc = "new_ivf"
    /\ \E ok \in BOOLEAN :
          IF ok
          THEN /\ ivf' = NewIvfWithPq(IvfModelArgs)
               /\ model_built' = TRUE
               /\ pc' = "shuffle_v2"
               /\ UNCHANGED <<result, origin>>
          ELSE /\ result' = Err("Index")
               /\ origin' = "Index"
               /\ pc' = "done"
               /\ UNCHANGED <<ivf, model_built>>
    /\ UNCHANGED <<args, stage_vars, shuffler_vars, engine_vars, out_schema,
                   phases, written>>

\* write_index_partitions: the writer receives the next partition stream.
WriteNext ==
    /\ pc = "write"
    /\ Len(written) < Len(streams)
    /\ \E ok \in BOOLEAN :
          IF ok
          THEN /\ written' = Append(written, streams[Len(written) + 1])
               /\ UNCHANGED <<pc, result, origin>>
          ELSE /\ result' = Err("IO")
               /\ origin' = "IO"
               /\ pc' = "done"
               /\ UNCHANGED written
    /\ UNCHANGED <<inputs, stage_vars, shuffler_vars, engine_vars, out_schema, model_built, phases>>

\* write_index_partitions returns, and build_partitions returns Ok(()).
WriteEnd ==
    /\ pc = "write"
    /\ Len(written) = Len(streams)
    /\ result' = OkResult
    /\ pc' = "done"
    /\ UNCHANGED <<inputs, stage_vars, shuffler_vars, engine_vars,
                   out_schema, model_built, phases, written, origin>>

(* ------------------------- the transform stage ------------------------- *)

\* The consumer polls the stream, which pulls the next input item and
\* spawns its task: `data.zip(..).map(|..| tokio::task::spawn(..))`.
Spawn ==
    /\ pc \in {"stage", "execute"}
    /\ stream = "alive"
    /\ CanPull
    /\ tasks' = Append(tasks, "running")
    /\ UNCHANGED <<inputs, pc, stream, emitted, shuffler_vars, engine_vars,
                   out_schema, model_built, phases, written, result, origin>>

\* A spawned task runs to its end on the runtime. The stream holds only its
\* JoinHandle, and a dropped JoinHandle detaches the task.
TaskRun(i) ==
    /\ tasks[i] = "running"
    /\ tasks' = [tasks EXCEPT ![i] = "finished"]
    /\ UNCHANGED <<inputs, pc, stream, emitted, shuffler_vars, engine_vars,
                   out_schema, model_built, phases, written, result, origin>>

(* -------------------------- shuffle_dataset_v2 ------------------------- *)

\* The stream is built (lazily) and IvfShuffler::try_new(...)? is called.
ShuffleV2Start ==
    /\ pc = "shuffle_v2"
    /\ \E ok \in BOOLEAN :
          IF ok
          THEN /\ stream' = "alive"
               /\ out_schema' = TransformedSchema(NumSubVectors)
               /\ pc' = "stage"
               /\ phases' = Append(phases, "stage")
               /\ UNCHANGED <<result, origin>>
          ELSE /\ stream' = "dropped"
               /\ out_schema' = TransformedSchema(NumSubVectors)
               /\ result' = Err("IO")
               /\ origin' = "IO"
               /\ pc' = "done"
               /\ UNCHANGED phases
    /\ UNCHANGED <<inputs, tasks, emitted, shuffler_vars, engine_vars,
                   model_built, written>>

\* write_unsorted_stream takes the next item of the stream: a batch is
\* appended to the spill area, an error item ends the phase and, through
\* the two `?`, the call.
StageNext(i) ==
    /\ pc = "stage"
    /\ stream = "alive"
    /\ tasks[i] = "finished"
    /\ LET item == StreamItemV2(TaskResult(data[i]))
       IN /\ tasks' = [tasks EXCEPT ![i] = "yielded"]
          /\ emitted' = Append(emitted, [idx |-> i, ok |-> item.ok,
                                         kind |-> item.kind, batch |-> item.batch])
          /\ IF item.ok
             THEN \E ok \in BOOLEAN :
                     IF ok
                     THEN /\ spill' = StageAppend(spill, item.batch)
                          /\ UNCHANGED <<pc, stream, result, origin>>
                     ELSE /\ result' = Err("IO")
                          /\ origin' = "IO"
                          /\ pc' = "done"
                          /\ stream' = "dropped"
                          /\ UNCHANGED spill
             ELSE /\ result' = Err(item.kind)
                  /\ origin' = TaskResult(data[i]).kind
                  /\ pc' = "done"
                  /\ stream' = "dropped"
                  /\ UNCHANGED spill
    /\ UNCHANGED <<inputs, partition_files, streams, engine_vars,
                   out_schema, model_built, phases, written>>

\* A variant of StageEnd in which the stream ends as soon as the input is
\* exhausted.
StageEndEarly ==
    /\ pc = "stage"
    /\ stream = "alive"
    /\ Len(tasks) = Len(data)
    /\ stream' = "dropped"
    /\ pc' = "bucket"
    /\ phases' = Append(phases, "bucket")
    /\ UNCHANGED <<inputs, tasks, emitted, shuffler_vars, engine_vars,
                   out_schema, model_built, written, result, origin>>

\* The stream ends: the input is exhausted and no task is in flight.
StageEnd ==
    /\ pc = "stage"
    /\ stream = "alive"
    /\ Len(tasks) = Len(data)
    /\ InFlight = 0
    /\ stream' = "dropped"
    /\ pc' = "bucket"
    /\ phases' = Append(phases, "bucket")
    /\ UNCHANGED <<inputs, tasks, emitted, shuffler_vars, engine_vars,
                   out_schema, model_built, written, result, origin>>

\* shuffler.write_partitioned_shuffles(10000, 2).await?
ShuffleV2Bucket ==
    /\ pc = "bucket"
    /\ \E ok \in BOOLEAN :
          IF ok
          THEN /\ partition_files' = WritePartitionedShuffles(spill, chunk_size, fan_out)
               /\ pc' = "merge"
               /\ phases' = Append(phases, "merge")
               /\ UNCHANGED <<result, origin>>
          ELSE /\ result' = Err("IO")
               /\ origin' = "IO"
               /\ pc' = "done"
               /\ UNCHANGED <<partition_files, phases>>
    /\ UNCHANGED <<inputs, stage_vars, spill, streams, engine_vars,
                   out_schema, model_built, written>>

\* A variant of ShuffleV2Merge that hands all bucket files but the last one
\* to load_partitioned_shuffles.
ShuffleV2MergeShort ==
    /\ pc = "merge"
    /\ streams' = LoadPartitionedShuffles(
                      SubSeq(partition_files, 1, Len(partition_files) - 1))
    /\ IF entry = "build_partitions"
       THEN /\ pc' = "write"
            /\ phases' = Append(phases, "write")
            /\ UNCHANGED result
       ELSE /\ pc' = "done"
            /\ result' = OkResult
            /\ UNCHANGED phases
    /\ UNCHANGED <<inputs, stage_vars, spill, partition_files, engine_vars,
                   out_schema, model_built, written, origin>>

\* shuffler.load_partitioned_shuffles(partition_files).await? and Ok(stream)
ShuffleV2Merge ==
    /\ pc = "merge"
    /\ \E ok \in BOOLEAN :
          IF ok
          THEN /\ streams' = LoadPartitionedShuffles(partition_files)
               /\ IF entry = "build_partitions"
                  THEN /\ pc' = "write"
                       /\ phases' = Append(phases, "write")
                       /\ UNCHANGED result
                  ELSE /\ pc' = "done"
                       /\ result' = OkResult
                       /\ UNCHANGED phases
               /\ UNCHANGED origin
          ELSE /\ result' = Err("IO")
               /\ origin' = "IO"
               /\ pc' = "done"
               /\ UNCHANGED <<streams, phases>>
    /\ UNCHANGED <<inputs, stage_vars, spill, partition_files, engine_vars,
                   out_schema, model_built, written>>

(* --------------------------- shuffle_dataset --------------------------- *)

\* The stream is built (lazily), LANCE_MEMORY_LIMIT is read and the
\* SessionContext is made over the memory pool.
ShuffleV1Start ==
    /\ pc = "shuffle_v1"
    /\ stream' = "alive"
    /\ out_schema' = TransformedSchema(NumSubVectors)
    /\ memory_pool' = MemoryPool(MemoryLimit(env))
    /\ logged' = IF MemoryLimitLogs(env)
                 THEN Append(logged, "error: Failed to parse LANCE_MEMORY_LIMIT")
                 ELSE logged
    /\ pc' = "execute"
    /\ phases' = Append(phases, "sort")
    /\ UNCHANGED <<inputs, tasks, emitted, shuffler_vars, engine_input, groups,
                   model_built, written, result, origin>>

\* The execution context reads the next item of the one-shot stream (the
\* plan runs when the grouped stream is polled). An error item fails the
\* plan.
ExecuteNext(i) ==
    /\ pc = "execute"
    /\ stream = "alive"
    /\ tasks[i] = "finished"
    /\ LET item == StreamItemV1(TaskResult(data[i]))
       IN /\ tasks' = [tasks EXCEPT ![i] = "yielded"]
          /\ emitted' = Append(emitted, [idx |-> i, ok |-> item.ok,
                                         kind |-> item.kind, batch |-> item.batch])
          /\ IF item.ok
             THEN /\ engine_input' = Append(engine_input, item.batch)
                  /\ UNCHANGED <<pc, stream, result, origin>>
             ELSE /\ result' = Err(item.kind)
                  /\ origin' = TaskResult(data[i]).kind
                  /\ pc' = "done"
                  /\ stream' = "dropped"
                  /\ UNCHANGED engine_input
    /\ UNCHANGED <<inputs, shuffler_vars, groups, memory_pool, logged,
                   out_schema, model_built, phases, written>>

\* The stream has ended: the rows are sorted by partition id and grouped.
\* An allocation that a capped pool refuses fails the plan; the context is
\* built without touching the disk manager, so the sort may also spill and
\* go on: which of the two happens is the engine's choice.
ExecuteEnd ==
    /\ pc = "execute"
    /\ stream = "alive"
    /\ Len(tasks) = Len(data)
    /\ InFlight = 0
    /\ stream' = "dropped"
    /\ pc' = "done"
    /\ \/ /\ groups' = GroupByStream(SortByPartId(Flatten(engine_input)))
          /\ result' = OkResult
          /\ UNCHANGED origin
       \/ /\ memory_pool.kind = "greedy"
          /\ result' = Err("ResourcesExhausted")
          /\ origin' = "ResourcesExhausted"
          /\ UNCHANGED groups
    /\ UNCHANGED <<inputs, tasks, emitted, shuffler_vars, engine_input,
                   memory_pool, logged, out_schema, model_built, phases, written>>

(* --------------------------- specifications ---------------------------- *)

Next ==
    \/ BuildPartitionsValidate
    \/ BuildPartitionsNewIvf
    \/ ShuffleV2Start
    \/ Spawn
    \/ \E i \in 1..Len(tasks) : TaskRun(i)
    \/ \E i \in 1..Len(tasks) : StageNext(i)
    \/ StageEnd
    \/ ShuffleV2Bucket
    \/ ShuffleV2Merge
    \/ WriteNext
    \/ WriteEnd
    \/ ShuffleV1Start
    \/ \E i \in 1..Len(tasks) : ExecuteNext(i)
    \/ ExecuteEnd

Spec == Init /\ [][Next]_vars

BuildNext ==
    \/ BuildPartitionsValidate
    \/ BuildPartitionsNewIvf
    \/ ShuffleV2Start
    \/ Spawn
    \/ \E i \in 1..Len(tasks) : TaskRun(i)
    \/ \E i \in 1..Len(tasks) : StageNext(i)
    \/ StageEnd
    \/ ShuffleV2Bucket
    \/ ShuffleV2Merge
    \/ WriteNext
    \/ WriteEnd

BuildSpec == BuildInit /\ [][BuildNext]_vars

\* A call of build_partitions that is awaited: the runtime keeps running
\* the spawned tasks and polling the future of the call, so a call that can
\* take a step takes one.
BuildLiveInit == Init /\ entry = "build_partitions"

BuildLiveSpec == BuildLiveInit /\ [][BuildNext]_vars /\ WF_vars(BuildNext)

ShufflerNext ==
    \/ ShuffleV2Start
    \/ Spawn
    \/ \E i \in 1..Len(tasks) : TaskRun(i)
    \/ \E i \in 1..Len(tasks) : StageNext(i)
    \/ StageEnd
    \/ ShuffleV2Bucket
    \/ ShuffleV2Merge

ShufflerSpec == ShufflerInit /\ [][ShufflerNext]_vars

(* ------------------------------ properties ----------------------------- *)

AllRows(ss) == Flatten([p \in 1..Len(ss) |-> Flatten(ss[p])])

\* The rows of the batches the transform stream handed to its consumer.
FedRows == Flatten([k \in 1..Len(emitted) |-> emitted[k].batch])

PartIds(rows) == [k \in 1..Len(rows) |-> rows[k].part_id]

NonDecreasing(s) == \A i, j \in 1..Len(s) : i < j => s[i] <= s[j]

SchemaInvalid ==
    entry = "build_partitions" /\ (Column \notin schema \/ ROW_ID \notin schema)

\* C1: build_partitions over a stream whose schema lacks the vector column
\* or the row-id column ends with a Schema error and has done nothing else:
\* no model, no batch pulled, no task, no shuffle phase, nothing written.
C1_SchemaErrorFailsFast ==
    SchemaInvalid =>
        /\ pc \in {"validate", "done"}
        /\ pc = "done" => result = Err("Schema")
        /\ ~model_built
        /\ stream = "none" /\ tasks = <<>> /\ emitted = <<>>
        /\ phases = <<>>
        /\ spill = <<>> /\ partition_files = <<>> /\ streams = <<>>
        /\ written = <<>>

\* build_partitions has returned for a non-empty stream that has the
\* vector column and lacks the row-id column.
C1_Witness ==
    /\ SchemaInvalid
    /\ Column \in schema
    /\ Len(data) > 0
    /\ pc = "done"

\* C2: when the three phases of the shuffler have run, the rows of all
\* output partition streams together are, as a bag, the rows that were fed
\* into the stage phase: none lost, none duplicated.
C2_RowPreservation ==
    (entry = "ivf_shuffler" /\ pc = "done" /\ result = OkResult) =>
        SeqToBag(AllRows(streams)) = SeqToBag(FedRows)

\* A finished shuffle whose batches arrived out of input order, whose
\* staged rows span several chunks, several partitions and several buckets.
C2_Witness ==
    /\ entry = "ivf_shuffler" /\ pc = "done" /\ result = OkResult
    /\ Len(emitted) >= 2 /\ emitted[1].idx > emitted[2].idx
    /\ chunk_size < Len(FedRows)
    /\ NumBuckets(fan_out) > 1
    /\ Cardinality({ p \in 1..Len(streams) : streams[p] # <<>> }) >= 2

\* C3: the groups of shuffle_dataset have strictly increasing partition
\* ids and each holds rows of its id only; the stream at index p of the
\* vector of shuffle_dataset_v2 holds rows of partition id p only. So the
\* partition ids of the output are non-decreasing and no id comes in two
\* separate groups, whatever order the batches arrived in.
C3_PartitionOrdering ==
    /\ \A i, j \in 1..Len(groups) : i < j => groups[i].part_id < groups[j].part_id
    /\ \A g \in 1..Len(groups) :
          /\ groups[g].rows # <<>>
          /\ \A k \in 1..Len(groups[g].rows) :
                groups[g].rows[k].part_id = groups[g].part_id
    /\ \A p \in 1..Len(streams) :
          \A k \in 1..Len(Flatten(streams[p])) :
             Flatten(streams[p])[k].part_id = p - 1
    /\ NonDecreasing(PartIds(AllRows(streams)))

\* shuffle_dataset has returned several groups for rows that arrived with
\* their partition ids out of order.
C3_Witness ==
    /\ entry = "shuffle_dataset" /\ pc = "done" /\ result = OkResult
    /\ Len(groups) >= 2
    /\ ~NonDecreasing(PartIds(Flatten(engine_input)))
    /\ Len(Flatten(engine_input)) > Len(groups)

EmittedFor(i) == { k \in 1..Len(emitted) : emitted[k].idx = i }

ErrorItems == { k \in 1..Len(emitted) : ~emitted[k].ok }

\* C4: the stream yields one item for a task when the task is yielded and
\* none before; the item of a failed task (upstream error item, error of
\* partition_transform, panic) is an error item and that of a transformed
\* batch is a batch; after an error item nothing more is yielded (the
\* batch is not tried again) and the call has failed.
C4_TaskFailureIsOneErrorItem ==
    /\ \A i \in 1..Len(tasks) :
          Cardinality(EmittedFor(i)) = (IF tasks[i] = "yielded" THEN 1 ELSE 0)
    /\ \A k \in 1..Len(emitted) :
          ~emitted[k].ok <=> data[emitted[k].idx].fate # "ok"
    /\ Cardinality(ErrorItems) <= 1
    /\ ErrorItems # {} =>
          /\ Len(emitted) \in ErrorItems
          /\ pc = "done"
          /\ result.tag = "err"

\* build_partitions has failed on the error item of a task that panicked,
\* after a batch was staged and while another task was still in flight.
C4_Witness ==
    /\ entry = "build_partitions" /\ pc = "done" /\ result.tag = "err"
    /\ Len(emitted) = 2
    /\ data[emitted[2].idx].fate = "panic"
    /\ ~emitted[2].ok
    /\ InFlight > 0

StageKinds == {"Transform", "Panic", "Source"}

\* C5 as stated: the error build_partitions returns has the kind of the
\* error that occurred.
C5_KindUnmodified ==
    (entry = "build_partitions" /\ pc = "done" /\ result.tag = "err") =>
        result.kind = origin

\* C5, amended: no failure is swallowed, and the error build_partitions
\* returns has the kind of the error that occurred unless it occurred in
\* the transform stage (error of partition_transform, panic, upstream error
\* item): then it is returned as an IO error.
C5_KindUnmodifiedButStage ==
    entry = "build_partitions" =>
        /\ result.tag = "err" <=> origin # ""
        /\ result.tag = "err" =>
              result.kind = (IF origin \in StageKinds THEN "IO" ELSE origin)
        /\ ErrorItems # {} => result.tag = "err" /\ origin \in StageKinds
        /\ (pc = "done" /\ result = OkResult) => AllOk(data)

\* build_partitions has returned an IO error for a task that panicked.
C5_Witness ==
    /\ entry = "build_partitions" /\ pc = "done"
    /\ origin = "Panic"
    /\ result = Err("IO")

\* C6: at most NumCpus tasks are in flight, and an input item is pulled
\* (a task is spawned) only from a state with fewer than NumCpus in flight.
C6_BoundedInFlight ==
    [][ /\ InFlight' <= NumCpus
        /\ Len(tasks') > Len(tasks) => InFlight < NumCpus ]_vars

\* NumCpus tasks are in flight while the input stream has more items.
C6_Witness ==
    /\ stream = "alive"
    /\ InFlight = NumCpus
    /\ Len(tasks) < Len(data)

\* C7 as stated: once the transform stream is dropped, no task that is
\* still running runs to its end.
C7_DropCancelsTasks ==
    [][ stream = "dropped" =>
          \A i \in 1..Len(tasks) : tasks[i] = "running" => tasks'[i] # "finished" ]_vars

Malformed == env.state = "set" /\ ~ParseUsize(env.value).ok

RowSets(ss) ==
    [p \in 1..Len(ss) |-> { Flatten(ss[p])[k] : k \in 1..Len(Flatten(ss[p])) }]

\* The output of the bucket and merge phases over the staged rows with
\* fan-out factor f.
ShuffledWith(f) ==
    LoadPartitionedShuffles(WritePartitionedShuffles(spill, chunk_size, f))

\* C10: the per-partition row sets a shuffle with fan-out factor 1 or 8
\* ends with are those of the same staged rows shuffled with fan-out
\* factor 1 and with fan-out factor 8.
C10_FanOutIndependence ==
    (entry = "ivf_shuffler" /\ pc = "done" /\ result = OkResult /\ fan_out \in {1, 8}) =>
        /\ RowSets(streams) = RowSets(ShuffledWith(1))
        /\ RowSets(streams) = RowSets(ShuffledWith(8))

\* A finished shuffle with fan-out factor 8 of rows of several partitions,
\* which fan-out factor 1 spreads over more bucket files.
C10_Witness ==
    /\ entry = "ivf_shuffler" /\ pc = "done" /\ result = OkResult
    /\ fan_out = 8
    /\ NumBuckets(1) > NumBuckets(8)
    /\ Cardinality({ p \in 1..Len(streams) : streams[p] # <<>> }) >= 2

(* ------------------- build_partitions: the partition model ------------- *)

InRange(pid) == part_range.start <= pid /\ pid < part_range.end

RowIdSet(rows) == { rows[k].row_id : k \in 1..Len(rows) }

\* The writer has been handed streams by a call of build_partitions.
Handed == entry = "build_partitions" /\ written # <<>>

\* C11 as stated: the streams handed to the writer are one per partition id
\* of the requested range [start, end), in increasing partition-id order,
\* and hold rows of those ids only.
C11_StreamsPerRangeId ==
    Handed =>
        /\ Len(streams) = part_range.end - part_range.start
        /\ \A k \in 1..Len(written) :
              /\ written[k] = streams[k]
              /\ \A j \in 1..Len(Flatten(written[k])) :
                    Flatten(written[k])[j].part_id = part_range.start + k - 1

\* C11, amended: the streams handed to the writer are one per partition id
\* of the whole index, 0 .. num_partitions - 1, in increasing partition-id
\* order; the streams of the ids outside the requested range are empty, and
\* the rows handed on are those the model assigns to an id of the range.
C11_StreamsPerIndexId ==
    Handed =>
        /\ Len(streams) = NumPartitions
        /\ \A k \in 1..Len(written) :
              /\ written[k] = streams[k]
              /\ \A j \in 1..Len(Flatten(written[k])) :
                    Flatten(written[k])[j].part_id = k - 1
              /\ ~InRange(k - 1) => written[k] = <<>>
        /\ RowIdSet(AllRows(streams)) =
              { r \in RowIdsOf(data) : InRange(AssignPartition(IvfModelArgs, r)) }

\* build_partitions has succeeded for the range [1, 2) of an index of more
\* partitions: a row of partition 1 was written, another row was left out.
C11_Witness ==
    /\ entry = "build_partitions" /\ pc = "done" /\ result = OkResult
    /\ part_range = [start |-> 1, end |-> 2]
    /\ NumPartitions > 2
    /\ written[2] # <<>>
    /\ RowIdSet(AllRows(written)) # RowIdsOf(data)

HasOverride(r) == precomputed.some /\ r \in DOMAIN precomputed.val

\* The distance of the vector of row r to centroid p under the metric of
\* the call.
DistanceTo(r, p) == Distance(metric_type, vectors[r], Centroids[p])

\* C12: every row of a transformed batch whose row id has no precomputed
\* partition carries the index of a centroid that no centroid is nearer
\* than under the metric of the call, and every centroid of a lower index
\* is strictly farther.
C12_NearestCentroid ==
    entry = "build_partitions" =>
        \A k \in 1..Len(FedRows) :
            LET row == FedRows[k]
            IN ~HasOverride(row.row_id) =>
                  /\ row.part_id \in 0..(NumPartitions - 1)
                  /\ \A q \in 1..NumPartitions :
                        /\ DistanceTo(row.row_id, row.part_id + 1) <= DistanceTo(row.row_id, q)
                        /\ q < row.part_id + 1 =>
                              DistanceTo(row.row_id, q) > DistanceTo(row.row_id, row.part_id + 1)

\* A transformed batch holds a row that is equally near to two centroids
\* under the Euclidean metric and carries the lower of the two indexes.
C12_Witness ==
    /\ entry = "build_partitions"
    /\ metric_type = "l2"
    /\ \E k \in 1..Len(FedRows) :
          LET row == FedRows[k]
          IN /\ ~HasOverride(row.row_id)
             /\ row.part_id + 2 <= NumPartitions
             /\ DistanceTo(row.row_id, row.part_id + 1) = DistanceTo(row.row_id, row.part_id + 2)

\* C13: every row of a transformed batch whose row id has a precomputed
\* partition carries that partition id, whichever centroid is nearest.
C13_OverridePriority ==
    entry = "build_partitions" =>
        \A k \in 1..Len(FedRows) :
            HasOverride(FedRows[k].row_id) =>
                FedRows[k].part_id = precomputed.val[FedRows[k].row_id]

\* A transformed batch holds a row that carries its precomputed partition
\* id although another centroid is the nearest one.
C13_Witness ==
    /\ entry = "build_partitions"
    /\ \E k \in 1..Len(FedRows) :
          /\ HasOverride(FedRows[k].row_id)
          /\ FedRows[k].part_id = precomputed.val[FedRows[k].row_id]
          /\ \E q \in 1..NumPartitions :
                DistanceTo(FedRows[k].row_id, q) <
                    DistanceTo(FedRows[k].row_id, FedRows[k].part_id + 1)

(* ----------------------- the transformed batches ----------------------- *)

\* The rows of input item i that the model keeps.
KeptRows(i) == SelectSeq(data[i].rows, LAMBDA r : ivf[r] # Filtered)

\* C14: every item the transform stream has yielded is either a batch or a
\* failure of a whole batch. A batch comes from an input batch on which
\* nothing failed and holds, for every row the model keeps, one row with
\* the row id, one partition id and one code whose width is the sub-vector
\* count of the quantizer, the width the declared schema gives to the code
\* column. A failure carries no row.
C14_BatchesFullyTransformed ==
    \A k \in 1..Len(emitted) :
        LET e == emitted[k]
        IN IF e.ok
           THEN /\ data[e.idx].fate = "ok"
                /\ [j \in 1..Len(e.batch) |-> e.batch[j].row_id] = KeptRows(e.idx)
                /\ \A j \in 1..Len(e.batch) :
                      /\ DOMAIN e.batch[j] = {"row_id", "part_id", "code"}
                      /\ e.batch[j].part_id \in 0..(NumPartitions - 1)
                      /\ Len(e.batch[j].code) = NumSubVectors
                      /\ Len(e.batch[j].code) = out_schema.code_width
           ELSE /\ data[e.idx].fate # "ok"
                /\ e.batch = <<>>

\* The stream has yielded a transformed batch of several rows and then the
\* failure of another batch.
C14_Witness ==
    /\ Len(emitted) >= 2
    /\ emitted[1].ok /\ Len(emitted[1].batch) >= 2
    /\ ~emitted[2].ok
    /\ Len(data[emitted[2].idx].rows) >= 1

(* --------------------------- the three phases -------------------------- *)

IsPrefix(s, t) == Len(s) <= Len(t) /\ s = SubSeq(t, 1, Len(s))

Started(ph) == \E k \in 1..Len(phases) : phases[k] = ph

\* The stage phase has consumed the whole transformed stream: every input
\* item was yielded once, as a batch, and the batches are staged in the
\* order they were yielded.
StageComplete ==
    /\ Len(tasks) = Len(data)
    /\ InFlight = 0
    /\ Len(emitted) = Len(data)
    /\ { emitted[k].idx : k \in 1..Len(emitted) } = 1..Len(data)
    /\ \A k \in 1..Len(emitted) : emitted[k].ok
    /\ spill = [k \in 1..Len(emitted) |-> emitted[k].batch]

\* C15: in shuffle_dataset_v2 the phases start in the order stage, bucket,
\* merge; the bucket phase has started only if the stage phase consumed the
\* whole transformed stream without a failure; the merge phase is given the
\* bucket files the bucket phase returned; and once a phase has failed the
\* call has returned that error and no phase starts any more.
C15_PhaseOrder ==
    /\ [](entry = "build_partitions" =>
            /\ IsPrefix(phases, <<"stage", "bucket", "merge", "write">>)
            /\ Started("bucket") => StageComplete
            /\ Started("merge") =>
                  partition_files = WritePartitionedShuffles(spill, chunk_size, fan_out)
            /\ streams # <<>> =>
                  /\ Started("merge")
                  /\ streams = LoadPartitionedShuffles(partition_files)
            /\ result.tag = "err" => pc = "done")
    /\ [][entry = "build_partitions" =>
            /\ phases' # phases => (result = NoResult /\ result' = NoResult)
            /\ result.tag = "err" => (result' = result /\ phases' = phases)]_vars

\* The bucket phase has failed after a stage phase of several batches: the
\* call has returned the error and the merge phase has not started.
C15_Witness ==
    /\ entry = "build_partitions" /\ pc = "done"
    /\ phases = <<"stage", "bucket">>
    /\ result = Err("IO")
    /\ Len(spill) >= 2
    /\ streams = <<>>

(* ------------------------------ the writer ----------------------------- *)

\* C16: the writer of build_partitions has received something only if the
\* schema was valid, the model was built and the three phases of the
\* shuffle have succeeded over a stream on which no item failed; what it
\* received are streams the shuffle returned. A call that has failed before
\* the writer was started has handed nothing to the writer.
C16_WriterAfterShuffle ==
    entry = "build_partitions" =>
        /\ written # <<>> =>
              /\ ~SchemaInvalid
              /\ model_built
              /\ phases = <<"stage", "bucket", "merge", "write">>
              /\ AllOk(data)
              /\ StageComplete
              /\ streams = LoadPartitionedShuffles(partition_files)
              /\ \A k \in 1..Len(written) : written[k] = streams[k]
        /\ (result.tag = "err" /\ ~Started("write")) => written = <<>>

\* build_partitions has failed on the transform error of one batch after
\* another batch was staged: the writer has received nothing.
C16_Witness ==
    /\ entry = "build_partitions" /\ pc = "done"
    /\ result.tag = "err" /\ origin = "Transform"
    /\ spill # <<>>
    /\ written = <<>>

(* ------------------ the items of the transform stream ------------------ *)

\* The transform stream has ended: its consumer has seen the end of it.
StreamEnded ==
    \/ Started("bucket")
    \/ entry = "shuffle_dataset" /\ pc = "done" /\ ErrorItems = {}

\* C17: the transform stream yields at most one item for every input item
\* it has pulled, and none for an item it has not pulled; the item of an
\* input batch is its transformed batch or its failure; a stream that has
\* ended has pulled the whole input and yielded one item for every input
\* item, in any order, with no task left in flight.
C17_OneItemPerBatch ==
    /\ \A k \in 1..Len(emitted) :
          /\ emitted[k].idx \in 1..Len(tasks)
          /\ emitted[k].ok <=> data[emitted[k].idx].fate = "ok"
          /\ emitted[k].ok => emitted[k].batch = PartitionTransform(data[emitted[k].idx].rows)
    /\ \A i \in 1..Len(tasks) :
          /\ Cardinality(EmittedFor(i)) <= 1
          /\ tasks[i] = "yielded" <=> Cardinality(EmittedFor(i)) = 1
    /\ StreamEnded =>
          /\ InFlight = 0
          /\ Len(tasks) = Len(data)
          /\ Len(emitted) = Len(data)
          /\ { emitted[k].idx : k \in 1..Len(emitted) } = 1..Len(data)

\* The stream has ended after it yielded the items of three batches in
\* another order than the input order.
C17_Witness ==
    /\ StreamEnded
    /\ Len(emitted) >= 3
    /\ emitted[1].idx > emitted[2].idx

(* ------------------------------ termination ---------------------------- *)

\* C18: a call of build_partitions over a stream with a valid schema on
\* which no item fails, if it is awaited, returns Ok unless a call it makes
\* fails; and whenever build_partitions has returned Ok the writer has
\* consumed every output partition stream, each once and whole, in order,
\* and with them every row of the input once.
C18_BuildTerminates ==
    /\ (~SchemaInvalid /\ AllOk(data)) =>
          <>(origin # "" \/ (pc = "done" /\ result = OkResult))
    /\ []((pc = "done" /\ result = OkResult) =>
            /\ origin = ""
            /\ Len(streams) = NumPartitions
            /\ written = streams
            /\ SeqToBag([k \in 1..Len(AllRows(written)) |-> AllRows(written)[k].row_id])
                  = SetToBag(RowIdsOf(data)))

\* build_partitions has returned Ok over a stream of several batches whose
\* rows went to several partitions, all of them written.
C18_Witness ==
    /\ entry = "build_partitions" /\ pc = "done" /\ result = OkResult
    /\ Len(data) >= 2
    /\ Cardinality({ p \in 1..Len(written) : written[p] # <<>> }) >= 2
    /\ written = streams

====
